---- MODULE Spec2Model ----
(***************************************************************************)
(* Model of api_clients/repo_client.py: the RepoClient constructor, the    *)
(* name validation and the four repository operations, together with the   *)
(* part of the `requests` and `re` libraries the client relies on.         *)
(*                                                                         *)
(* A repository name is a sequence of one-character strings.  An           *)
(* Optional[int] status code is a set with at most one element ({} is      *)
(* None).  One HTTP exchange is summarised by a record `net`: either the   *)
(* transport raised (exc # "none", no response) or a response arrived.     *)
(***************************************************************************)
EXTENDS Integers, Sequences, FiniteSets, TLC

VARIABLES GITHUB_TOKEN,  \* config.GITHUB_TOKEN, "" when not configured
          constructed,   \* a RepoClient object has been returned to the caller
          username,      \* self.username ({} before construction)
          identityOK,    \* some GET /user exchange succeeded and gave a login
          ctorCalls,     \* number of RepoClient(...) calls made
          userRequests,  \* number of GET /user requests sent
          opCalls,       \* number of create/get/update/delete calls made
          opRequests,    \* number of requests sent by those calls
          last           \* the most recent call: operation, arguments, result

vars == <<GITHUB_TOKEN, constructed, username, identityOK, ctorCalls,
          userRequests, opCalls, opRequests, last>>

----------------------------------------------------------------------------
(* Bounds of the model *)

MaxShort == 3        \* longest name enumerated character by character
MaxCalls == 2        \* cap on each of the two call counters

(* Program constant *)
MAX_REPO_NAME_LENGTH == 100

----------------------------------------------------------------------------
(* Inputs *)

Alphabet == {"a", "-", ".", "/", "\n"}

LongLens == {MAX_REPO_NAME_LENGTH, MAX_REPO_NAME_LENGTH + 1}

RECURSIVE SeqsUpTo(_)
SeqsUpTo(n) ==
    IF n = 0 THEN {<<>>}
    ELSE LET shorter == SeqsUpTo(n - 1)
         IN shorter \cup {Append(s, c) : s \in {t \in shorter : Len(t) = n - 1},
                                         c \in Alphabet}

\* s stretched to length n by inserting "a" after its first character; the
\* first and the last character of s are kept.
Pad(s, n) ==
    [i \in 1..n |-> IF i = 1 THEN s[1]
                    ELSE IF i > n - (Len(s) - 1) THEN s[i - (n - Len(s))]
                    ELSE "a"]

\* The names given to _validate_repo_name: every short name, and every
\* non-empty short name stretched to the length limit and one beyond it.
Names ==
    LET short == SeqsUpTo(MaxShort)
    IN short \cup {Pad(s, n) : s \in short \ {<<>>}, n \in LongLens}

\* The names given to the four operations: one per outcome of the validation.
CallNames ==
    { <<>>, <<"a">>, <<"-", "a">>, <<"a", ".">>, <<"a", "/">>, <<"a", "\n">>,
      Pad(<<"a", "-">>, MAX_REPO_NAME_LENGTH + 1) }

Descriptions == { [type |-> "str", value |-> "text"],
                  [type |-> "int", value |-> "5"] }

Tokens == {"", "tok"}
DefaultTokens == {"", "envtok"}

Statuses == {200, 304, 401, 404, 422, 500}

Bodies == { [kind |-> "object", fields |-> {}],
            [kind |-> "object", fields |-> {"login", "message"}],
            [kind |-> "array", fields |-> {}],
            [kind |-> "invalid", fields |-> {}] }

Responses == [status_code : Statuses, body : Bodies]

Nets == { [exc |-> e, response |-> {}] : e \in {"ConnectionError", "Timeout"} }
        \cup { [exc |-> "none", response |-> {r}] : r \in Responses }

\* The exchange of a call that sends no request, and the exchanges the
\* environment can answer a call with: none unless the call, tried on a dead
\* connection, turns out to send a request.
NoNet == [exc |-> "none", response |-> {}]
ProbeNet == [exc |-> "ConnectionError", response |-> {}]
NetsFor(probe) == IF probe.requests = 0 THEN {NoNet} ELSE Nets

----------------------------------------------------------------------------
(* Library behaviour the client relies on *)

\* The character class [a-zA-Z0-9_.-]
CharClass ==
    {"a","b","c","d","e","f","g","h","i","j","k","l","m",
     "n","o","p","q","r","s","t","u","v","w","x","y","z",
     "A","B","C","D","E","F","G","H","I","J","K","L","M",
     "N","O","P","Q","R","S","T","U","V","W","X","Y","Z",
     "0","1","2","3","4","5","6","7","8","9","_",".","-"}

\* Python's `$` (no MULTILINE flag) at position k of s, k characters consumed:
\* the end of the string, or just before a newline that ends the string.
DollarAt(s, k) ==
    \/ k = Len(s)
    \/ k = Len(s) - 1 /\ s[Len(s)] = "\n"

\* re.match(REPO_NAME_PATTERN, s) is not None, REPO_NAME_PATTERN = ^[a-zA-Z0-9_.-]+$
REPO_NAME_PATTERN(s) ==
    \E k \in 1..Len(s) : /\ DollarAt(s, k)
                         /\ \A i \in 1..k : s[i] \in CharClass

\* Variant: 5xx responses do not raise.
raise_for_status_only_4xx(r) == 400 <= r.status_code /\ r.status_code < 500

\* Response.raise_for_status(): raises HTTPError for 4xx and 5xx only.
raise_for_status(r) == 400 <= r.status_code /\ r.status_code < 600

\* A RequestException and its `response` attribute (None is {}).
RequestException(type, response) == [type |-> type, response |-> response]

\* Variant: the status code of the response is dropped.
status_code_of_dropped(e) == {}

\* getattr(e.response, 'status_code', None) if hasattr(e, 'response') else None
status_code_of(e) == {r.status_code : r \in e.response}

TheResponse(x) == CHOOSE r \in x.response : TRUE

\* The body of each try block: requests.<method>(..., timeout=10) followed by
\* response.raise_for_status().  Type "none" means nothing was raised and
\* `response` holds the response; a transport failure carries no response,
\* an HTTPError carries the response that caused it.
try_request(net) ==
    IF net.exc # "none" THEN RequestException(net.exc, {})
    ELSE IF raise_for_status(TheResponse(net))
         THEN RequestException("HTTPError", net.response)
    ELSE [type |-> "none", response |-> net.response]

----------------------------------------------------------------------------
(* Results of a call.  `requests` counts the HTTP requests the call sent;   *)
(* it is set by the handler at the place where the outcome arises.          *)

Returned(response, user) ==
    [kind |-> "return", status_code |-> {}, message |-> "", detail |-> "",
     response |-> response, username |-> user, requests |-> 0]

Raise(kind, status, message, detail) ==
    [kind |-> kind, status_code |-> status, message |-> message,
     detail |-> detail, response |-> {}, username |-> {}, requests |-> 0]

ValidationError(message) == Raise("ValidationError", {}, message, "")

GitHubAPIError(message, detail, status_code) ==
    Raise("GitHubAPIError", status_code, message, detail)

\* An exception of another class leaving the method.
Escapes(kind) == Raise(kind, {}, "", "")

\* The outcome of a path of a handler on which n requests were sent.
Sent(n, outcome) == [outcome EXCEPT !.requests = n]

InvalidCredentials == "Invalid GitHub token. Please check your credentials."
NameEmpty == "Repository name cannot be empty."
NameTooLong == "Repository name cannot exceed 100 characters."
NameBadChars ==
    "Repository name can only contain alphanumeric characters, '-', '_', and '.'"
NameBoundary == "Repository name cannot start with '-' or end with '.'"

----------------------------------------------------------------------------
(* RepoClient *)

\* Variant: the length check rejects a name of exactly the maximal length.
_validate_repo_name_off_by_one(repo_name) ==
    IF repo_name = <<>> THEN NameEmpty
    ELSE IF Len(repo_name) >= MAX_REPO_NAME_LENGTH THEN NameTooLong
    ELSE IF ~REPO_NAME_PATTERN(repo_name) THEN NameBadChars
    ELSE IF repo_name[1] = "-" \/ repo_name[Len(repo_name)] = "."
         THEN NameBoundary
    ELSE "ok"

\* The four checks of _validate_repo_name, in the order of the code.
\* "ok" when the method returns, otherwise the message of the ValidationError.
_validate_repo_name(repo_name) ==
    IF repo_name = <<>> THEN NameEmpty
    ELSE IF Len(repo_name) > MAX_REPO_NAME_LENGTH THEN NameTooLong
    ELSE IF ~REPO_NAME_PATTERN(repo_name) THEN NameBadChars
    ELSE IF repo_name[1] = "-" \/ repo_name[Len(repo_name)] = "."
         THEN NameBoundary
    ELSE "ok"

\* isinstance(v, str)
isinstance_str(v) == v.type = "str"

\* Variant: the unauthorized status is compared with 403.
init_except_403(e) ==
    IF status_code_of(e) = {403}
    THEN GitHubAPIError(InvalidCredentials, "", {403})
    ELSE GitHubAPIError("Failed to authenticate with GitHub: ", e.type,
                        status_code_of(e))

\* except RequestException in __init__
init_except(e) ==
    IF status_code_of(e) = {401}
    THEN GitHubAPIError(InvalidCredentials, "", {401})
    ELSE GitHubAPIError("Failed to authenticate with GitHub: ", e.type,
                        status_code_of(e))

\* user_response.json()['login'] inside the try block of __init__
\* (requests >= 2.27: the JSONDecodeError of json() is a RequestException
\* without a response, so the except block catches it; the KeyError and the
\* TypeError of the subscript are not RequestExceptions).
read_login(r) ==
    IF r.body.kind = "invalid"
    THEN init_except(RequestException("JSONDecodeError", {}))
    ELSE IF r.body.kind # "object" THEN Escapes("TypeError")
    ELSE IF "login" \notin r.body.fields THEN Escapes("KeyError")
    ELSE Returned({}, {"octocat"})

\* Variant: the token is checked after the identity lookup.
init_token_checked_late(token, default_token, net) ==
    LET self_token == IF token # "" THEN token ELSE default_token
        e == try_request(net)
    IN  IF e.type # "none" THEN Sent(1, init_except(e))
        ELSE IF self_token = ""
        THEN Sent(1, ValidationError("GitHub token is required."))
        ELSE Sent(1, read_login(TheResponse(e)))

\* RepoClient.__init__(token): the result of the construction
__init__(token, default_token, net) ==
    LET self_token == IF token # "" THEN token ELSE default_token
        e == try_request(net)
    IN  IF self_token = ""
        THEN Sent(0, ValidationError("GitHub token is required."))
        ELSE IF e.type # "none" THEN Sent(1, init_except(e))
        ELSE Sent(1, read_login(TheResponse(e)))

\* except RequestException in create_repo
create_except(e) ==
    IF status_code_of(e) = {422}
    THEN LET body == TheResponse(e).body
         IN IF body.kind = "invalid" THEN Escapes("JSONDecodeError")
            ELSE IF body.kind # "object" THEN Escapes("AttributeError")
            ELSE GitHubAPIError("Failed to create repository: ",
                                IF "message" \in body.fields
                                THEN "service message" ELSE "Validation failed",
                                {422})
    ELSE GitHubAPIError("Failed to create repository: ", e.type,
                        status_code_of(e))

\* Variant: the description is checked after the request.
create_repo_description_checked_late(repo_name, description, net) ==
    LET v == _validate_repo_name(repo_name)
        e == try_request(net)
    IN  IF v # "ok" THEN Sent(0, ValidationError(v))
        ELSE IF e.type # "none" THEN Sent(1, create_except(e))
        ELSE IF ~isinstance_str(description)
        THEN Sent(1, ValidationError("Description must be a string."))
        ELSE Sent(1, Returned(e.response, {}))

create_repo(repo_name, description, net) ==
    LET v == _validate_repo_name(repo_name)
        e == try_request(net)
    IN  IF v # "ok" THEN Sent(0, ValidationError(v))
        ELSE IF ~isinstance_str(description)
        THEN Sent(0, ValidationError("Description must be a string."))
        ELSE IF e.type # "none" THEN Sent(1, create_except(e))
        ELSE Sent(1, Returned(e.response, {}))

\* except RequestException in get_repo, update_repo and delete_repo
wrap_except(message, e) == GitHubAPIError(message, e.type, status_code_of(e))

get_repo(repo_name, net) ==
    LET v == _validate_repo_name(repo_name)
        e == try_request(net)
    IN  IF v # "ok" THEN Sent(0, ValidationError(v))
        ELSE IF e.type # "none"
        THEN Sent(1, wrap_except("Failed to get repository", e))
        ELSE Sent(1, Returned(e.response, {}))

update_repo(repo_name, new_description, net) ==
    LET v == _validate_repo_name(repo_name)
        e == try_request(net)
    IN  IF v # "ok" THEN Sent(0, ValidationError(v))
        ELSE IF ~isinstance_str(new_description)
        THEN Sent(0, ValidationError("Description must be a string."))
        ELSE IF e.type # "none"
        THEN Sent(1, wrap_except("Failed to update repository", e))
        ELSE Sent(1, Returned(e.response, {}))

\* Variant: a failed request is sent a second time before giving up.
delete_repo_retry(repo_name, net) ==
    LET v == _validate_repo_name(repo_name)
        e == try_request(net)
    IN  IF v # "ok" THEN Sent(0, ValidationError(v))
        ELSE IF e.type # "none"
        THEN Sent(2, wrap_except("Failed to delete repository", e))
        ELSE Sent(1, Returned(e.response, {}))

delete_repo(repo_name, net) ==
    LET v == _validate_repo_name(repo_name)
        e == try_request(net)
    IN  IF v # "ok" THEN Sent(0, ValidationError(v))
        ELSE IF e.type # "none"
        THEN Sent(1, wrap_except("Failed to delete repository", e))
        ELSE Sent(1, Returned(e.response, {}))

----------------------------------------------------------------------------
(* The state machine: a caller constructing a client and using it *)

NoDescription == [type |-> "str", value |-> ""]

Call(op, token, name, description, net, result) ==
    [op |-> op, token |-> token, name |-> name, description |-> description,
     net |-> net, result |-> result]

\* The remote service accepted the token and reported an identity.
IdentityGranted(net) ==
    \E r \in net.response : /\ ~(r.status_code \in 400..599)
                            /\ r.body.kind = "object"
                            /\ "login" \in r.body.fields

Init ==
    /\ GITHUB_TOKEN \in DefaultTokens
    /\ constructed = FALSE
    /\ username = {}
    /\ identityOK = FALSE
    /\ ctorCalls = 0
    /\ userRequests = 0
    /\ opCalls = 0
    /\ opRequests = 0
    /\ last = Call("none", "", <<>>, NoDescription, NoNet, Returned({}, {}))

\* RepoClient(token): may be tried again after a failure
Construct ==
    /\ ~constructed
    /\ ctorCalls < MaxCalls
    /\ \E token \in Tokens :
       \E net \in NetsFor(__init__(token, GITHUB_TOKEN, ProbeNet)) :
          LET res == __init__(token, GITHUB_TOKEN, net)
          IN /\ last' = Call("__init__", token, <<>>, NoDescription, net, res)
             /\ constructed' = (res.kind = "return")
             /\ username' = res.username
             /\ identityOK' = (identityOK \/ IdentityGranted(net))
             /\ userRequests' = userRequests + res.requests
    /\ ctorCalls' = ctorCalls + 1
    /\ UNCHANGED <<GITHUB_TOKEN, opCalls, opRequests>>

Operation(op, name, description, net, res) ==
    /\ constructed
    /\ opCalls < MaxCalls
    /\ last' = Call(op, "", name, description, net, res)
    /\ opCalls' = opCalls + 1
    /\ opRequests' = opRequests + res.requests
    /\ UNCHANGED <<GITHUB_TOKEN, constructed, username, identityOK,
                   ctorCalls, userRequests>>

CreateRepo ==
    \E name \in CallNames, description \in Descriptions :
      \E net \in NetsFor(create_repo(name, description, ProbeNet)) :
        Operation("create_repo", name, description, net,
                  create_repo(name, description, net))

GetRepo ==
    \E name \in CallNames :
      \E net \in NetsFor(get_repo(name, ProbeNet)) :
        Operation("get_repo", name, NoDescription, net, get_repo(name, net))

UpdateRepo ==
    \E name \in CallNames, description \in Descriptions :
      \E net \in NetsFor(update_repo(name, description, ProbeNet)) :
        Operation("update_repo", name, description, net,
                  update_repo(name, description, net))

DeleteRepo ==
    \E name \in CallNames :
      \E net \in NetsFor(delete_repo(name, ProbeNet)) :
        Operation("delete_repo", name, NoDescription, net,
                  delete_repo(name, net))

Next == Construct \/ CreateRepo \/ GetRepo \/ UpdateRepo \/ DeleteRepo

Spec == Init /\ [][Next]_vars

----------------------------------------------------------------------------
(* The name validation on its own, over all the names of the model: the *)
(* caller picks a name, then _validate_repo_name is applied to it.       *)

InitValidate ==
    /\ GITHUB_TOKEN \in DefaultTokens
    /\ constructed = FALSE
    /\ username = {}
    /\ identityOK = FALSE
    /\ ctorCalls = 0
    /\ userRequests = 0
    /\ opCalls = 0
    /\ opRequests = 0
    /\ \E name \in Names :
          last = Call("pending", "", name, NoDescription, NoNet,
                      Returned({}, {}))

ValidateName ==
    /\ last.op = "pending"
    /\ LET v == _validate_repo_name(last.name)
       IN last' = Call("_validate_repo_name", "", last.name, NoDescription,
                       NoNet,
                       IF v = "ok" THEN Returned({}, {})
                       ELSE ValidationError(v))
    /\ UNCHANGED <<GITHUB_TOKEN, constructed, username, identityOK, ctorCalls,
                   userRequests, opCalls, opRequests>>

NextValidate == ValidateName

SpecValidate == InitValidate /\ [][NextValidate]_vars

----------------------------------------------------------------------------
(* Properties *)

Ops == {"create_repo", "get_repo", "update_repo", "delete_repo"}

\* The inputs of call c pass the validation of its operation.
InputsValid(c) ==
    /\ _validate_repo_name(c.name) = "ok"
    /\ c.op \in {"create_repo", "update_repo"} => isinstance_str(c.description)

\* The status of the response of call c, {} when no response was received.
ResponseStatus(c) == {r.status_code : r \in c.net.response}

\* The naming rules as the specification states them.
WellFormed(s) ==
    /\ Len(s) \in 1..MAX_REPO_NAME_LENGTH
    /\ \A i \in 1..Len(s) : s[i] \in CharClass
    /\ s[1] # "-"
    /\ s[Len(s)] # "."

RuleEmpty(s) == s = <<>>
RuleLength(s) == Len(s) > MAX_REPO_NAME_LENGTH
RuleChars(s) == \E i \in 1..Len(s) : s[i] \notin CharClass
RuleBoundary(s) == s # <<>> /\ (s[1] = "-" \/ s[Len(s)] = ".")

EarliestViolatedRule(s) ==
    IF RuleEmpty(s) THEN NameEmpty
    ELSE IF RuleLength(s) THEN NameTooLong
    ELSE IF RuleChars(s) THEN NameBadChars
    ELSE IF RuleBoundary(s) THEN NameBoundary
    ELSE "ok"

ViolatedRules(s) ==
    {i \in 1..4 : \/ i = 1 /\ RuleEmpty(s)
                  \/ i = 2 /\ RuleLength(s)
                  \/ i = 3 /\ RuleChars(s)
                  \/ i = 4 /\ RuleBoundary(s)}

\* C1: a call of one of the four operations that fails with ValidationError
\* has sent no HTTP request.
C1_ValidationBeforeNetwork ==
    (last.op \in Ops /\ last.result.kind = "ValidationError")
        => (last.result.requests = 0 /\ last.net = NoNet)

C1_Witness ==
    /\ last.op = "create_repo"
    /\ _validate_repo_name(last.name) = "ok"
    /\ ~isinstance_str(last.description)
    /\ last.result.kind = "ValidationError"
    /\ opCalls = 1
    /\ opRequests = 0

\* C2: _validate_repo_name returns without raising for every name of length
\* 1..100 made of characters of [A-Za-z0-9_.-] that does not start with '-'
\* and does not end with '.'.
C2_AcceptsWellFormed ==
    (last.op = "_validate_repo_name" /\ WellFormed(last.name))
        => last.result.kind = "return"

C2_Witness ==
    /\ last.op = "_validate_repo_name"
    /\ Len(last.name) = MAX_REPO_NAME_LENGTH
    /\ WellFormed(last.name)
    /\ last.result.kind = "return"

\* C3: _validate_repo_name raises ValidationError for every non-empty name of
\* at most 100 characters that contains a character outside [A-Za-z0-9_.-],
\* wherever that character is.
C3_RejectsForeignCharacter ==
    (/\ last.op = "_validate_repo_name"
     /\ Len(last.name) \in 1..MAX_REPO_NAME_LENGTH
     /\ RuleChars(last.name))
        => last.result.kind = "ValidationError"

\* C4: every failure of the constructor or of one of the four operations is
\* a ValidationError or a GitHubAPIError.
C4_OnlyTwoErrorKinds ==
    (last.op \in Ops \cup {"__init__"} /\ last.result.kind # "return")
        => last.result.kind \in {"ValidationError", "GitHubAPIError"}

\* C5 as stated: every response whose status is not in 200..299 makes the
\* call fail with GitHubAPIError, and a response is returned only when its
\* status is in 200..299.
C5_Non2xxFails ==
    /\ (last.op \in Ops /\ ResponseStatus(last) \cap (200..299) = {}
                        /\ ResponseStatus(last) # {})
          => last.result.kind = "GitHubAPIError"
    /\ (last.op \in Ops /\ last.result.kind = "return")
          => \A r \in last.result.response : r.status_code \in 200..299

\* C5 as amended: every response whose status is in 400..599 makes the call
\* fail, with GitHubAPIError unless it is a 422 answer to create_repo whose
\* body is not a JSON object; a response is returned to the caller only when
\* its status is outside 400..599, and it is the response received.
C5_ErrorStatusFails ==
    /\ (last.op \in Ops /\ ResponseStatus(last) \cap (400..599) # {})
          => /\ last.result.kind # "return"
             /\ \/ last.result.kind = "GitHubAPIError"
                \/ /\ last.op = "create_repo"
                   /\ ResponseStatus(last) = {422}
                   /\ \A r \in last.net.response : r.body.kind # "object"
    /\ (last.op \in Ops /\ last.result.kind = "return")
          => /\ last.result.response = last.net.response
             /\ \A r \in last.result.response : r.status_code \notin 400..599

C5_Witness ==
    /\ last.op = "get_repo"
    /\ ResponseStatus(last) = {500}
    /\ last.result.kind = "GitHubAPIError"

\* C6: when the request of get_repo, update_repo or delete_repo fails, the
\* GitHubAPIError raised carries the status code of the response received,
\* and None when no response was received.
C6_StatusCodeCarried ==
    (/\ last.op \in {"get_repo", "update_repo", "delete_repo"}
     /\ last.result.requests > 0
     /\ last.result.kind # "return")
        => /\ last.result.kind = "GitHubAPIError"
           /\ last.result.status_code = ResponseStatus(last)

C6_Witness ==
    /\ last.op = "update_repo"
    /\ ResponseStatus(last) = {404}
    /\ last.result.kind = "GitHubAPIError"
    /\ last.result.status_code = {404}

\* C7: constructing a client with no token and no configured default token
\* fails with ValidationError, and the construction sends no request.
C7_MissingTokenNoRequest ==
    (last.op = "__init__" /\ last.token = "" /\ GITHUB_TOKEN = "")
        => /\ last.result.kind = "ValidationError"
           /\ last.result.requests = 0
           /\ last.net = NoNet
           /\ ~constructed

C7_Witness ==
    /\ last.op = "__init__"
    /\ last.token = ""
    /\ GITHUB_TOKEN = ""
    /\ last.result.kind = "ValidationError"
    /\ ctorCalls = MaxCalls

\* C8: a construction answered with status 401 fails with GitHubAPIError
\* carrying 401 and the invalid-credentials message and yields no client; no
\* operation is called and no operation request is sent unless an identity
\* lookup succeeded before.
C8_UnauthorizedToken ==
    /\ (last.op = "__init__" /\ ResponseStatus(last) = {401})
          => /\ last.result.kind = "GitHubAPIError"
             /\ last.result.status_code = {401}
             /\ last.result.message = InvalidCredentials
             /\ ~constructed
    /\ (constructed \/ opCalls > 0 \/ opRequests > 0) => identityOK

C8_Witness ==
    /\ last.op = "__init__"
    /\ ResponseStatus(last) = {401}
    /\ last.result.kind = "GitHubAPIError"
    /\ ~constructed
    /\ ~identityOK

\* C9: a call of one of the four operations sends exactly one request when
\* its inputs pass validation and none otherwise, whether the request
\* succeeds, fails or times out; the requests sent never outnumber the calls.
C9_OneRequestPerCall ==
    /\ [](opRequests <= opCalls)
    /\ [][opCalls' = opCalls + 1
            => opRequests' = opRequests + (IF InputsValid(last') THEN 1 ELSE 0)]_vars

C9_Witness ==
    /\ last.op = "delete_repo"
    /\ last.net.exc = "Timeout"
    /\ last.result.kind = "GitHubAPIError"
    /\ opCalls = MaxCalls
    /\ opRequests = MaxCalls

\* C10: for a name that violates several of the rules empty, longer than 100,
\* character outside the set, boundary character, _validate_repo_name reports
\* the rule that comes first in that order.
C10_EarliestRuleReported ==
    (last.op = "_validate_repo_name" /\ Cardinality(ViolatedRules(last.name)) > 1)
        => /\ last.result.kind = "ValidationError"
           /\ last.result.message = EarliestViolatedRule(last.name)

====
